---- MODULE Spec2Model ----
(***************************************************************************)
(* A model of get_daily_zaobao (src/__init__.py): one POST to the zaobao   *)
(* API, validation of the reply against ZaobaoResponse, and the rendering  *)
(* of the daily brief or of one failure message.                           *)
(*                                                                         *)
(* A Python str is a sequence of characters.  The fixed Chinese texts of   *)
(* the source are single tokens named by an ASCII gloss (the line of the   *)
(* source is given beside each); the characters the server sends are       *)
(* one-letter strings, and "\n" is the newline character.                  *)
(***************************************************************************)
EXTENDS Naturals, Sequences, FiniteSets

VARIABLES
    net,          \* fate of the POST on the wire: "ok" or a transport failure
    server,       \* what the endpoint answers when reached: [status, body]
    pc,           \* position of the coroutine in get_daily_zaobao
    posts,        \* number of client.post calls issued so far
    response,     \* the httpx response held by the coroutine
    zaobao_data,  \* the validated ZaobaoResponse
    result        \* the returned str

vars == <<net, server, pc, posts, response, zaobao_data, result>>

(***************************************************************************)
(* Bounds of the model.                                                    *)
(***************************************************************************)
MaxNews == 2      \* longest news list the server sends

(***************************************************************************)
(* JSON values as the server sends them.                                   *)
(***************************************************************************)
Absent == [k |-> "absent"]          \* the key is not in the mapping
Null == [k |-> "null"]              \* JSON null, Python None
JsonMap == [k |-> "map"]            \* a JSON object where a scalar is expected
Str(s) == [k |-> "str", v |-> s]
List(l) == [k |-> "list", v |-> l]
Num(n) == [k |-> "num", v |-> n]
Int(n) == [k |-> "int", v |-> n]

NL == "\n"

Items == {<<"a">>, <<"b">>}
NewsLists == UNION {[1..n -> Items] : n \in 0..MaxNews}

DateVals == {Absent, Null, Str(<<>>), Str(<<"d">>), List(<<<<"d">>>>)}
NewsVals == {Absent, Null, JsonMap, Num(7), Str(<<>>), Str(<<"a", "b">>)}
              \cup {List(l) : l \in NewsLists}
WeiyuVals == {Absent, Null, Str(<<>>), Str(<<"w">>), List(<<<<"w">>>>)}
AudioVals == {Absent, Null, Str(<<>>), Str(<<"u">>)}

Dicts == [k : {"dict"}, date : DateVals, news : NewsVals,
          weiyu : WeiyuVals, audio : AudioVals]
DataVals == {Absent, Str(<<"x">>)} \cup Dicts
CodeVals == {Absent, Null, Int(200), Int(401)}
MsgVals == {Absent, Null, Str(<<"m", "s">>)}

NonJson == [k |-> "nonjson"]        \* a body response.json() cannot decode
JsonArray == [k |-> "array"]        \* a JSON document that is not an object
Objects == [k : {"object"}, code : CodeVals, msg : MsgVals, data : DataVals]
Bodies == {NonJson, JsonArray} \cup Objects

Statuses == {200, 201, 404, 500}
Servers == [status : Statuses, body : Bodies]
Nets == {"ok", "timeout", "connect", "dns"}

NoResponse == [k |-> "none"]
NoData == [k |-> "none"]
NoResult == <<"<no result>">>

(***************************************************************************)
(* The texts of the source, one token each.                                *)
(***************************************************************************)
MsgMalformed == <<"zaobao data format incorrect, retry later.">>      \* l.89 早报数据格式不正确，请稍后重试。
MsgRenderFail == <<"zaobao text processing failed, retry later.">>    \* l.127 早报信息处理失败，请稍后重试。
MsgCannotConnect == <<"cannot connect to zaobao service, retry later.">> \* l.130 无法连接到早报服务，请稍后重试。
MsgGenericError == <<"error while processing zaobao, retry later.">>  \* l.133 处理早报信息时出错，请稍后重试。
CodeFailPrefix == "get zaobao failed: "                               \* l.93 获取早报失败:
MissingPrefix == "zaobao data incomplete, missing "                   \* l.100 早报数据不完整，缺少
MissingSuffix == " info, retry later."                                \* l.100 信息，请稍后重试。
Header == <<"[daily zaobao]">>                                        \* l.114 【每日早报】
TodayPrefix == "today is "                                            \* l.115 今天是
Placeholder == <<"[no detailed news]">>                               \* l.110 【暂无详细新闻】
AudioPrefix == "audio link: "                                         \* l.122 音频链接:

\* f"获取早报失败: {zaobao_data.msg}"
MsgCodeFailNoMsg(msg) == <<CodeFailPrefix>>
MsgCodeFail(msg) == <<CodeFailPrefix>> \o msg

\* f"早报数据不完整，缺少 {field} 信息，请稍后重试。"
MsgMissing(field) == <<MissingPrefix, field, MissingSuffix>>

(***************************************************************************)
(* Python helpers: str.join, repr of a list of str, the f-string           *)
(* conversion of a value, and truthiness.                                  *)
(***************************************************************************)
RECURSIVE Join(_, _)
Join(strs, sep) ==
    IF Len(strs) = 0 THEN <<>>
    ELSE IF Len(strs) = 1 THEN strs[1]
    ELSE strs[1] \o <<sep>> \o Join(Tail(strs), sep)

RECURSIVE ReprItems(_)
ReprItems(l) ==
    IF Len(l) = 0 THEN <<>>
    ELSE IF Len(l) = 1 THEN <<"'">> \o l[1] \o <<"'">>
    ELSE <<"'">> \o l[1] \o <<"'", ",", " ">> \o ReprItems(Tail(l))

PyStr(v) ==
    CASE v.k = "str" -> v.v
      [] v.k = "list" -> <<"[">> \o ReprItems(v.v) \o <<"]">>
      [] OTHER -> <<"None">>

\* bool(v) for a validated data value
TruthyNotNone(v) == v.k \in {"str", "list"}
Truthy(v) == v.k \in {"str", "list"} /\ Len(v.v) > 0

(***************************************************************************)
(* ZaobaoResponse built from the decoded object: pydantic's validation.    *)
(* lax is pydantic's coercion of a number to str (pydantic 1 coerces,      *)
(* pydantic 2 rejects); the source pins neither.                           *)
(***************************************************************************)
Invalid == [k |-> "invalid"]

\* one value of data: Optional[Union[str, List[str], None]]
ValidateValue(v, lax) ==
    CASE v.k \in {"absent", "null", "str", "list"} -> v
      [] v.k = "num" -> IF lax THEN Str(<<"7">>) ELSE Invalid
      [] OTHER -> Invalid

\* code: int = Field(...)
ValidateCode(c) == IF c.k = "int" THEN c ELSE Invalid

\* msg: str = Field(default="")
ValidateMsgRequired(m) == IF m.k = "str" THEN m ELSE Invalid
ValidateMsg(m) ==
    CASE m.k = "absent" -> Str(<<>>)
      [] m.k = "str" -> m
      [] OTHER -> Invalid

EmptyDict == [k |-> "dict", date |-> Absent, news |-> Absent,
              weiyu |-> Absent, audio |-> Absent]

\* data: Dict[str, Optional[Union[str, List[str], None]]] = Field(default_factory=dict)
ValidateData(d, lax) ==
    CASE d.k = "absent" -> EmptyDict
      [] d.k = "dict" ->
           LET f == [date |-> ValidateValue(d.date, lax),
                     news |-> ValidateValue(d.news, lax),
                     weiyu |-> ValidateValue(d.weiyu, lax),
                     audio |-> ValidateValue(d.audio, lax)]
           IN IF \E x \in DOMAIN f : f[x] = Invalid
              THEN Invalid
              ELSE [k |-> "dict", date |-> f.date, news |-> f.news,
                    weiyu |-> f.weiyu, audio |-> f.audio]
      [] OTHER -> Invalid

\* the model instance, or Invalid when pydantic raises ValidationError
Validate(obj, lax) ==
    LET c == ValidateCode(obj.code)
        m == ValidateMsg(obj.msg)
        d == ValidateData(obj.data, lax)
    IN IF c = Invalid \/ m = Invalid \/ d = Invalid
       THEN Invalid
       ELSE [k |-> "model", code |-> c.v, msg |-> m.v, data |-> d]

(***************************************************************************)
(* Exceptions.  Parent is the class hierarchy of the exceptions the calls  *)
(* of the source raise (httpx, json, pydantic, builtins), as far as the    *)
(* except clauses tell them apart.                                         *)
(***************************************************************************)
Parent(cls) ==
    CASE cls = "TimeoutException" -> "RequestError"
      [] cls = "ConnectError" -> "RequestError"
      [] cls = "RequestError" -> "HTTPError"
      [] cls = "HTTPStatusError" -> "HTTPError"
      [] cls = "HTTPError" -> "Exception"
      [] cls = "ValidationError" -> "ValueError"
      [] cls = "JSONDecodeError" -> "ValueError"
      [] cls = "ValueError" -> "Exception"
      [] cls = "TypeError" -> "Exception"
      [] OTHER -> "BaseException"

RECURSIVE IsA(_, _)
IsA(e, cls) ==
    \/ e = cls
    \/ e # "BaseException" /\ IsA(Parent(e), cls)

\* the exception client.post raises for a fate of the request on the wire
NetExc(n) ==
    CASE n = "timeout" -> "TimeoutException"
      [] n = "connect" -> "ConnectError"
      [] n = "dns" -> "ConnectError"

\* except ValidationError (l.87)
ParseExcept == <<[cls |-> "ValidationError", text |-> MsgMalformed]>>

\* except Exception (l.125)
RenderExcept == <<[cls |-> "Exception", text |-> MsgRenderFail]>>

\* except httpx.RequestError (l.128), except Exception (l.131)
OuterExceptSwapped ==
    <<[cls |-> "Exception", text |-> MsgGenericError],
      [cls |-> "RequestError", text |-> MsgCannotConnect]>>
OuterExceptNoCatchAll ==
    <<[cls |-> "RequestError", text |-> MsgCannotConnect]>>
OuterExcept ==
    <<[cls |-> "RequestError", text |-> MsgCannotConnect],
      [cls |-> "Exception", text |-> MsgGenericError]>>

\* Exception e raised under the except clauses `clauses` (innermost first):
\* the first clause whose class e is an instance of returns its text; with
\* none, e leaves get_daily_zaobao.
Unwind(e, clauses) ==
    LET hit == {i \in 1..Len(clauses) : IsA(e, clauses[i].cls)}
    IN IF hit = {}
       THEN [pc |-> "raised", text |-> NoResult]
       ELSE LET i == CHOOSE j \in hit : \A h \in hit : j <= h
            IN [pc |-> "done", text |-> clauses[i].text]

(***************************************************************************)
(* The checks and the rendering of l.91-124.                               *)
(***************************************************************************)
Is2xx(status) == status \div 100 = 2

RequiredFields == <<"date", "news", "weiyu">>

Field(data, name) ==
    CASE name = "date" -> data.date
      [] name = "news" -> data.news
      [] name = "weiyu" -> data.weiyu
      [] name = "audio" -> data.audio

\* the first field of required_fields that is absent or falsy, or "none"
FirstMissing(data) ==
    LET miss == {i \in 1..Len(RequiredFields) :
                    ~Truthy(Field(data, RequiredFields[i]))}
    IN IF miss = {} THEN "none"
       ELSE RequiredFields[CHOOSE i \in miss : \A j \in miss : i <= j]

\* l.104-110
RenderNewsJoinAll(v) ==
    CASE v.k = "list" -> Join(v.v, NL)
      [] v.k = "str" -> Join([i \in 1..Len(v.v) |-> <<v.v[i]>>], NL)
      [] OTHER -> Placeholder
RenderNews(v) ==
    CASE v.k = "list" -> Join(v.v, NL)
      [] v.k = "str" -> v.v
      [] OTHER -> Placeholder

\* l.121: data.get('audio') and data['audio'] is not None
AudioPresentNotNone(data) == data.audio.k \notin {"absent", "null"}
AudioPresent(data) == Truthy(data.audio) /\ data.audio.k # "null"

\* l.102-124: the text, or the exception "\n".join raises on a non-str part
RenderBrief(data) ==
    LET news == RenderNews(data.news)
        parts == <<Header, <<TodayPrefix>> \o PyStr(data.date), news>>
        tail == IF AudioPresent(data)
                THEN <<<<NL, AudioPrefix>> \o PyStr(data.audio)>>
                ELSE <<>>
    IN IF data.weiyu.k # "str"
       THEN [exc |-> "TypeError", text |-> NoResult]
       ELSE [exc |-> "none",
             text |-> Join(parts \o <<data.weiyu.v>> \o tail, NL)]

(***************************************************************************)
(* The coroutine.                                                          *)
(***************************************************************************)
Init ==
    /\ net \in Nets
    /\ server \in Servers
    /\ pc = "start"
    /\ posts = 0
    /\ response = NoResponse
    /\ zaobao_data = NoData
    /\ result = NoResult

\* leave get_daily_zaobao: return text, or let an exception out
Leave(out) ==
    /\ pc' = out.pc
    /\ result' = out.text

\* the one call site of client.post (l.81); the code has no loop around it
RequestSiteRetry(p) == p = "start" \/ (p = "done" /\ posts < 2 /\ net # "ok")
RequestSite(p) == p = "start"

\* l.79-81: await client.post(...)
Post ==
    /\ RequestSite(pc)
    /\ posts' = posts + 1
    /\ IF net # "ok"
       THEN /\ Leave(Unwind(NetExc(net), OuterExcept))
            /\ UNCHANGED response
       ELSE /\ response' = server
            /\ pc' = "responded"
            /\ UNCHANGED result
    /\ UNCHANGED <<net, server, zaobao_data>>

\* l.82: response.raise_for_status()
RaiseForStatus ==
    /\ pc = "responded"
    /\ IF Is2xx(response.status)
       THEN pc' = "status_ok" /\ UNCHANGED result
       ELSE Leave(Unwind("HTTPStatusError", OuterExcept))
    /\ UNCHANGED <<net, server, posts, response, zaobao_data>>

\* l.84-89: ZaobaoResponse(**response.json())
Parse ==
    /\ pc = "status_ok"
    /\ \E lax \in BOOLEAN :
         LET body == response.body
             handlers == ParseExcept \o OuterExcept
         IN CASE body.k = "nonjson" ->
                   /\ Leave(Unwind("JSONDecodeError", handlers))
                   /\ UNCHANGED zaobao_data
              [] body.k = "array" ->
                   /\ Leave(Unwind("TypeError", handlers))
                   /\ UNCHANGED zaobao_data
              [] OTHER ->
                   LET m == Validate(body, lax)
                   IN IF m = Invalid
                      THEN /\ Leave(Unwind("ValidationError", handlers))
                           /\ UNCHANGED zaobao_data
                      ELSE /\ zaobao_data' = m
                           /\ pc' = "validated"
                           /\ UNCHANGED result
    /\ UNCHANGED <<net, server, posts, response>>

\* l.91-93
CheckCode ==
    /\ pc = "validated"
    /\ IF zaobao_data.code # 200
       THEN Leave([pc |-> "done", text |-> MsgCodeFail(zaobao_data.msg)])
       ELSE pc' = "code_ok" /\ UNCHANGED result
    /\ UNCHANGED <<net, server, posts, response, zaobao_data>>

\* l.95-100
CheckRequired ==
    /\ pc = "code_ok"
    /\ LET field == FirstMissing(zaobao_data.data)
       IN IF field # "none"
          THEN Leave([pc |-> "done", text |-> MsgMissing(field)])
          ELSE pc' = "fields_ok" /\ UNCHANGED result
    /\ UNCHANGED <<net, server, posts, response, zaobao_data>>

\* l.102-127
Render ==
    /\ pc = "fields_ok"
    /\ LET r == RenderBrief(zaobao_data.data)
       IN IF r.exc # "none"
          THEN Leave(Unwind(r.exc, RenderExcept \o OuterExcept))
          ELSE Leave([pc |-> "done", text |-> r.text])
    /\ UNCHANGED <<net, server, posts, response, zaobao_data>>

Next ==
    \/ Post
    \/ RaiseForStatus
    \/ Parse
    \/ CheckCode
    \/ CheckRequired
    \/ Render

Spec == Init /\ [][Next]_vars

(***************************************************************************)
(* Vocabulary of the properties, stated on what the server sent.           *)
(***************************************************************************)
Done == pc = "done"
Got2xx == net = "ok" /\ server.status \in {200, 201}
GotObject == Got2xx /\ server.body.k = "object"

\* a data value of the declared type: null, a string or a list of strings
Typed(v) == v.k \in {"absent", "null", "str", "list"}
NonEmpty(v) == v.k \in {"str", "list"} /\ v.v # <<>>

\* the value the body holds under data[name]; Absent without a data mapping
Sent(name) ==
    IF server.body.data.k = "dict" THEN Field(server.body.data, name) ELSE Absent

SentMsg == IF server.body.msg.k = "str" THEN server.body.msg.v ELSE <<>>

\* the body parses as an envelope, whatever pydantic coerces
WellFormed ==
    /\ GotObject
    /\ server.body.code.k = "int"
    /\ server.body.msg.k \in {"absent", "str"}
    /\ server.body.data.k \in {"absent", "dict"}
    /\ \A f \in {"date", "news", "weiyu", "audio"} : Typed(Sent(f))

Code200 == WellFormed /\ server.body.code.v = 200

Renderable ==
    /\ Code200
    /\ NonEmpty(Sent("date"))
    /\ NonEmpty(Sent("news"))
    /\ Sent("weiyu").k = "str" /\ Sent("weiyu").v # <<>>

Tokens(text) == {text[i] : i \in 1..Len(text)}

\* text.split("\n")
RECURSIVE SplitLines(_)
SplitLines(text) ==
    LET nl == {i \in 1..Len(text) : text[i] = NL}
    IN IF nl = {} THEN <<text>>
       ELSE LET i == CHOOSE j \in nl : \A h \in nl : j <= h
            IN <<SubSeq(text, 1, i - 1)>>
                 \o SplitLines(SubSeq(text, i + 1, Len(text)))

Last(seq) == seq[Len(seq)]

SentDateText ==
    IF Sent("date").k = "str" THEN Sent("date").v ELSE PyStr(Sent("date"))
SentNewsLines ==
    IF Sent("news").k = "list" THEN Sent("news").v ELSE <<Sent("news").v>>
BriefLines ==
    <<Header, <<TodayPrefix>> \o SentDateText>> \o SentNewsLines
        \o <<Sent("weiyu").v>>
AudioLines == <<<<>>, <<AudioPrefix>> \o PyStr(Sent("audio"))>>

FailureTokens ==
    Tokens(MsgMalformed) \cup Tokens(MsgRenderFail) \cup Tokens(MsgCannotConnect)
      \cup Tokens(MsgGenericError) \cup {CodeFailPrefix, MissingPrefix, MissingSuffix}
BriefTokens == {Header[1], TodayPrefix, AudioPrefix, Placeholder[1]}

(***************************************************************************)
(* C1.  A 2xx reply that parses as an envelope with code 200 and non-empty *)
(* date, news (a non-empty list of strings or a non-empty string) and      *)
(* weiyu (a string) is answered by the brief: the header line, the line    *)
(* "today is {date}", every news item on its own line in the order         *)
(* received (a single string as exactly that one line), then the weiyu     *)
(* line; never by a failure message.                                       *)
(***************************************************************************)
C1_BriefInOrder ==
    (Done /\ Renderable) =>
        LET lines == SplitLines(result)
        IN /\ Len(lines) >= Len(BriefLines)
           /\ SubSeq(lines, 1, Len(BriefLines)) = BriefLines
           /\ Tokens(result) \cap FailureTokens = {}

C1_Witness ==
    /\ Done /\ Renderable
    /\ Sent("news") = List(<<<<"b">>, <<"a">>>>)
    /\ Sent("audio") = Absent
    /\ SplitLines(result) = <<Header, <<TodayPrefix, "d">>, <<"b">>, <<"a">>, <<"w">>>>

(***************************************************************************)
(* C2.  A well-formed envelope (2xx) whose code is not 200 is answered by  *)
(* the failure message that carries the envelope's msg verbatim, whatever  *)
(* data holds; nothing of the brief is rendered.                           *)
(***************************************************************************)
C2_CodeFailCarriesMsg ==
    (Done /\ WellFormed /\ server.body.code.v # 200) =>
        /\ Len(result) = 1 + Len(SentMsg)
        /\ result[1] = CodeFailPrefix
        /\ SubSeq(result, 2, Len(result)) = SentMsg
        /\ Tokens(result) \cap BriefTokens = {}

C2_Witness ==
    /\ Done /\ WellFormed /\ server.body.code.v = 401
    /\ server.body.data = EmptyDict
    /\ server.body.msg = Str(<<"m", "s">>)
    /\ result = <<CodeFailPrefix, "m", "s">>

(***************************************************************************)
(* C3.  A transport failure of the POST (connection error, DNS failure,    *)
(* timeout) is answered by the one fixed "cannot connect" message, the     *)
(* same for each of them and for every reply the server would have sent.   *)
(***************************************************************************)
C3_TransportFailure ==
    (net # "ok" /\ pc # "start") => (Done /\ result = MsgCannotConnect)

C3_Witness ==
    /\ Done /\ net = "timeout"
    /\ server.status = 200 /\ server.body.k = "object"
    /\ server.body.code = Int(200)
    /\ NonEmpty(Sent("date")) /\ NonEmpty(Sent("news")) /\ NonEmpty(Sent("weiyu"))
    /\ result = MsgCannotConnect

(***************************************************************************)
(* C4.  A non-2xx status is answered by a failure message derived from the *)
(* status: it names the status, so it differs between two statuses and     *)
(* from the generic processing-error message.                              *)
(***************************************************************************)
StatusText(status) ==
    CASE status = 404 -> "404"
      [] status = 500 -> "500"
      [] OTHER -> "2xx"

C4_StatusContext ==
    (Done /\ net = "ok" /\ server.status \notin {200, 201}) =>
        /\ result # MsgGenericError
        /\ StatusText(server.status) \in Tokens(result)

(***************************************************************************)
(* C5.  A well-formed envelope with code 200 in which date, news or weiyu  *)
(* is absent, null or empty is answered by the failure message naming the  *)
(* first such field in the order date, news, weiyu, and by nothing of the  *)
(* brief.                                                                  *)
(***************************************************************************)
FirstMissingSent ==
    IF ~NonEmpty(Sent("date")) THEN "date"
    ELSE IF ~NonEmpty(Sent("news")) THEN "news"
    ELSE IF ~NonEmpty(Sent("weiyu")) THEN "weiyu"
    ELSE "none"

C6_PlaceholderNews ==
    ( /\ Done /\ GotObject
      /\ server.body.code = Int(200)
      /\ server.body.msg.k \in {"absent", "str"}
      /\ server.body.data.k = "dict"
      /\ Sent("date").k = "str" /\ Sent("date").v # <<>>
      /\ Sent("weiyu").k = "str" /\ Sent("weiyu").v # <<>>
      /\ Typed(Sent("audio"))
      /\ Sent("news").k \in {"map", "num"} ) =>
        LET lines == SplitLines(result)
        IN /\ Len(lines) >= 4
           /\ SubSeq(lines, 1, 4) =
                <<Header, <<TodayPrefix>> \o Sent("date").v, Placeholder,
                  Sent("weiyu").v>>

SentNumber == \E f \in {"date", "news", "weiyu", "audio"} : Sent(f).k = "num"

ShapeRejected ==
    \/ server.body.code.k \in {"absent", "null"}
    \/ server.body.msg.k = "null"
    \/ server.body.data.k = "str"
    \/ \E f \in {"date", "news", "weiyu", "audio"} : Sent(f).k = "map"

IsFailureMessage(text) ==
    \/ text \in {MsgMalformed, MsgRenderFail, MsgCannotConnect, MsgGenericError}
    \/ \E f \in {"date", "news", "weiyu"} :
          text = <<MissingPrefix, f, MissingSuffix>>
    \/ /\ net = "ok" /\ server.body.k = "object"
       /\ text = <<CodeFailPrefix>> \o SentMsg

IsCompleteBrief(text) ==
    /\ Tokens(text) \cap FailureTokens = {}
    /\ GotObject /\ server.body.data.k = "dict"
    /\ \A f \in {"date", "news", "weiyu"} : Sent(f).k \in {"str", "list", "num"}
    /\ LET lines == SplitLines(text)
           n == IF Sent("news").k = "list" THEN Len(Sent("news").v) ELSE 1
       IN /\ Len(lines) \in {n + 3, n + 5}
          /\ lines[1] = Header
          /\ lines[2][1] = TodayPrefix /\ Len(lines[2]) > 1
          /\ \A i \in 3..(n + 3) : lines[i] # <<>>
          /\ Len(lines) = n + 5 =>
                /\ lines[n + 4] = <<>>
                /\ lines[n + 5][1] = AudioPrefix /\ Len(lines[n + 5]) > 1

EndsWithAudioLine ==
    LET lines == SplitLines(result)
    IN /\ Len(lines) = Len(BriefLines) + 2
       /\ SubSeq(lines, 1, Len(BriefLines)) = BriefLines
       /\ SubSeq(lines, Len(BriefLines) + 1, Len(lines)) = AudioLines
EndsWithWeiyuLine == SplitLines(result) = BriefLines

C9_Original ==
    (Done /\ Renderable) =>
        IF Sent("audio").k \notin {"absent", "null"}
        THEN EndsWithAudioLine
        ELSE EndsWithWeiyuLine

(***************************************************************************)
(* C9 amended.  In a brief the audio-link line follows the weiyu line      *)
(* exactly when data holds an audio entry that is not null and not empty;  *)
(* with audio absent, null or empty the brief ends with the weiyu line.    *)
(***************************************************************************)
C9_AudioIffNonEmpty ==
    (Done /\ Renderable) =>
        IF NonEmpty(Sent("audio"))
        THEN EndsWithAudioLine
        ELSE EndsWithWeiyuLine

C9_Witness ==
    /\ Done /\ Renderable
    /\ Sent("audio") = Str(<<"u">>)
    /\ Last(SplitLines(result)) = <<AudioPrefix, "u">>

(***************************************************************************)
(* C10.  One invocation issues at most one POST: none is sent after a      *)
(* failure, which leads straight to the returned message, and validation   *)
(* and rendering start only after that one request has completed.          *)
(***************************************************************************)
C10_SinglePost ==
    /\ posts <= 1
    /\ pc = "start" <=> posts = 0
    /\ pc \in {"status_ok", "validated", "code_ok", "fields_ok"} =>
          posts = 1 /\ net = "ok" /\ response = server
    /\ zaobao_data # NoData => posts = 1 /\ response = server
    /\ Done => posts = 1

C10_Witness ==
    /\ Done /\ posts = 1
    /\ net = "ok" /\ server.status = 500
    /\ result = MsgGenericError

====
